---- MODULE Spec2Model ----
(***************************************************************************)
(* Model of the tsunami-risk application: the monitoring page              *)
(* (src/pages/1_..._Monitoreo_Tiempo_Real.py) and the prediction of the    *)
(* interactive form (src/app.py).  On the page one Streamlit script run is *)
(* one polling cycle: read the sidebar widgets, fetch the catalog, compute *)
(* the summary metrics, evaluate the batch, render the tabs, and, when     *)
(* auto-refresh was read as enabled, sleep and rerun.  The browser runs    *)
(* beside the script: the user may tick or untick the auto-refresh box at  *)
(* any moment, and a run sees the value st.checkbox returned to it at line *)
(* 219.  An exception no handler catches ends the run where it is raised.  *)
(*                                                                         *)
(* Units: a probability is an integer number of thousandths (0.2 = 200),   *)
(* a magnitude an integer number of hundredths (7.5 = 750), a formatted    *)
(* magnitude ("%.1f") an integer number of tenths; longitude and latitude  *)
(* are whole degrees, depth and gap whole km and degrees, mmi, cdi and     *)
(* dmin tenths (mmi 6.0 = 60).                                             *)
(***************************************************************************)
EXTENDS Integers, Sequences, FiniteSets, TLC

VARIABLES
    model,                \* "GBC" (a loaded classifier) or "None" (load_model failed)
    feature_names,        \* the schema read from features.json; <<>> when not loaded
    checkbox,             \* the "Auto-actualizacion" widget as the user last set it
    auto_refresh,         \* the value st.checkbox returned to the run in progress
    alert_threshold,      \* the value of the threshold slider / 100, in thousandths
    pc,                   \* position of the script, the Poller state: "Idle",
                          \* "Fetching", "Evaluating", "Rendered", "Sleeping", or
                          \* "Crashed" (the run ended on an uncaught exception)
    response,             \* what the catalog answered to the request of this run
    http_requests,        \* requests.get calls made by this run
    earthquakes,          \* the list fetch_recent_earthquakes returned
    st_errors,            \* st.error diagnostics surfaced by this run, in order
    total_metric,         \* st.metric("Total Terremotos", ...)
    max_mag_metric,       \* st.metric("Magnitud Maxima", ...)
    alerts_metric,        \* st.metric("Alertas de Tsunami", alerts_count)
    earthquakes_with_risk,\* the assessment list after the sort
    high_risk,            \* the alert subset of tab 1
    tier_event,           \* input of the single-prediction specification
    tier_risk,            \* its result
    tier_called,          \* whether the single prediction has been made
    pipeline,             \* which prediction a single call exercises: "form"
                          \* (app.py) or "feed" (the monitoring page)
    earthquake_data,      \* app.py: the dict the form hands to predict_tsunami
    form_p,               \* app.py: the class-1 probability predict_proba returns
    processed,            \* app.py line 69: the engineered copy of the dict
    result,               \* app.py: what predict_tsunami returned
    feed_feature,         \* page: the catalog feature the call is made for
    df,                   \* page lines 126-146: the engineered one-row frame
    feed_risk,            \* page: what predict_tsunami_risk returned
    call_pc               \* "ready", "returned", or "raised" (an exception left
                          \* the function)

pageVars == <<checkbox, auto_refresh, alert_threshold, pc, response, http_requests,
              earthquakes, st_errors, total_metric, max_mag_metric, alerts_metric,
              earthquakes_with_risk, high_risk>>
tierVars == <<tier_event, tier_risk, tier_called>>
callVars == <<pipeline, earthquake_data, form_p, processed, result, feed_feature, df,
              feed_risk, call_pc>>
vars == <<model, feature_names, pageVars, tierVars, callVars>>

(***************************************************************************)
(* Bounds of the model.                                                    *)
(***************************************************************************)
\* the longest catalog response the model draws
MaxEvents == 3

(***************************************************************************)
(* Values.                                                                 *)
(***************************************************************************)
\* Python's None (a JSON null) in a numeric field; no catalog value equals it
None == -999

\* float('nan') in a numeric field (json.loads accepts the NaN literal)
NaN == -998

\* the key is absent from the properties object of a feature
Missing == -997

\* the result of predict_tsunami_risk when it returns None
NoRisk == [probability |-> None, risk_level |-> "None", risk_color |-> "None",
           risk_emoji |-> "None"]

Unreported == [kind |-> "unreported", value |-> 0]
NAMetric == [kind |-> "N/A", value |-> 0]
Metric(v) == [kind |-> "value", value |-> v]

RECURSIVE SeqsUpTo(_, _)
SeqsUpTo(S, n) ==
    IF n = 0 THEN {<<>>}
    ELSE LET shorter == SeqsUpTo(S, n - 1)
         IN  shorter \cup {Append(s, x) : s \in {t \in shorter : Len(t) = n - 1}, x \in S}

(***************************************************************************)
(* The catalog (the USGS query endpoint) as the page sees it.              *)
(***************************************************************************)
\* One GeoJSON feature.  keys_ok: every key the loop of lines 57-77 indexes
\* is there (id, properties, time, mag, place, geometry, coordinates x 3) and
\* properties.time is a number.  mag in hundredths, lon/lat in degrees, depth
\* in km; each may be JSON null.  sig, mmi, cdi, nst, dmin and gap are the
\* optional properties: a number, JSON null, NaN, or Missing.
\* scorable and clf_p stand for the pretrained
\* artifacts, which are opaque: whether scaler.transform and predict_proba
\* accept the event's feature vector, and the class-1 probability
\* predict_proba returns for it (thousandths).
Quake == [keys_ok |-> TRUE, mag |-> 523, lon |-> 142, lat |-> 38, depth |-> 29,
          sig |-> 650, mmi |-> 43, cdi |-> 38, nst |-> 120, dmin |-> 21, gap |-> 45,
          scorable |-> TRUE, clf_p |-> 100]

FeedFeatures ==
    {[Quake EXCEPT !.mag = m, !.clf_p = p] : m \in {523, 780}, p \in {100, 300, 800}}
    \cup {[Quake EXCEPT !.mag = None, !.clf_p = 300],
          [Quake EXCEPT !.depth = None, !.clf_p = 300],
          [Quake EXCEPT !.lat = None, !.clf_p = 800],
          [Quake EXCEPT !.lon = None, !.clf_p = 100],
          [Quake EXCEPT !.scorable = FALSE],
          [Quake EXCEPT !.keys_ok = FALSE]}

\* requests.get raises (timeout, connection), raise_for_status raises, or
\* response.json() raises; otherwise a feature collection
FailureKinds == {"transport", "http_status", "json"}

UpstreamResponses ==
    {[status |-> k, features |-> <<>>] : k \in FailureKinds}
    \cup {[status |-> "ok", features |-> fs] : fs \in SeqsUpTo(FeedFeatures, MaxEvents)}

NoResponse == [status |-> "none", features |-> <<>>]

\* lines 69-74: props.get(key, default): the default only when the key is absent
PropsGet(value, default) == IF value = Missing THEN default ELSE value

\* lines 61-77: the earthquake dict built from feature number i of the response
\* (feature['id'] is unique per source: the position stands for it)
EarthquakeOf(feature, i) ==
    [id |-> i, magnitude |-> feature.mag, longitude |-> feature.lon,
     latitude |-> feature.lat, depth |-> feature.depth,
     sig |-> PropsGet(feature.sig, 1000), mmi |-> PropsGet(feature.mmi, 50),
     cdi |-> PropsGet(feature.cdi, 50), nst |-> PropsGet(feature.nst, 50),
     dmin |-> PropsGet(feature.dmin, 10), gap |-> PropsGet(feature.gap, 100),
     scorable |-> feature.scorable, clf_p |-> feature.clf_p, risk |-> NoRisk]

\* the variant with the try inside the loop: a record that raises is skipped
ParsedEarthquakes_skip(resp) ==
    LET ok == {i \in DOMAIN resp.features : resp.features[i].keys_ok}
        F[i \in 0..Len(resp.features)] ==
            IF i = 0 THEN <<>>
            ELSE IF i \in ok THEN Append(F[i - 1], EarthquakeOf(resp.features[i], i))
            ELSE F[i - 1]
    IN  F[Len(resp.features)]

\* lines 35-85: the value fetch_recent_earthquakes returns for a response.
\* Any exception inside the try (a failed call, or a KeyError/TypeError on one
\* record of the loop) is caught at line 83 and the function returns [].
ParsedEarthquakes(resp) ==
    IF resp.status # "ok" THEN <<>>
    ELSE IF \E i \in DOMAIN resp.features : ~resp.features[i].keys_ok THEN <<>>
    ELSE [i \in DOMAIN resp.features |-> EarthquakeOf(resp.features[i], i)]

\* line 83-84: whether the call surfaced its diagnostic
FetchRaised(resp) ==
    \/ resp.status # "ok"
    \/ \E i \in DOMAIN resp.features : ~resp.features[i].keys_ok

(***************************************************************************)
(* predict_tsunami_risk (lines 99-184).                                    *)
(***************************************************************************)
\* lines 106-117: the defaults (5.0, 10.0, 0.0, 0.0, 1000, 5.0, 5.0, 50, 1.0, 100.0)
defaults == [magnitude |-> 500, depth |-> 10, latitude |-> 0, longitude |-> 0,
             sig |-> 1000, mmi |-> 50, cdi |-> 50, nst |-> 50, dmin |-> 10,
             gap |-> 100]

\* the substitution without the NaN test
input_data_none_only(earthquake) ==
    [key \in DOMAIN defaults |->
        IF earthquake[key] = None THEN defaults[key] ELSE earthquake[key]]

\* lines 119-124: a None value, or a float NaN, is replaced by the default of
\* its key (every key is in the dict fetch_recent_earthquakes built)
input_data(earthquake) ==
    [key \in DOMAIN defaults |->
        IF earthquake[key] = None \/ earthquake[key] = NaN
        THEN defaults[key] ELSE earthquake[key]]

\* the proximity test with the southern edge of the Pacific box taken inside
calculate_ocean_proximity_edge(lat, lon) ==
    LET pacific_ring == ((lat >= -60) /\ (lat < 60))
                        /\ (((lon > 120) /\ (lon < 180)) \/ ((lon > -180) /\ (lon < -60)))
        indian_ocean == ((lat > -45) /\ (lat < 25)) /\ ((lon > 40) /\ (lon < 120))
        caribbean == ((lat > 5) /\ (lat < 25)) /\ ((lon > -90) /\ (lon < -55))
    IN  IF pacific_ring \/ indian_ocean \/ caribbean THEN 1 ELSE 0

\* lines 88-96: the three boxes, combined with `and` / `or`, then int()
calculate_ocean_proximity(lat, lon) ==
    LET pacific_ring == ((lat > -60) /\ (lat < 60))
                        /\ (((lon > 120) /\ (lon < 180)) \/ ((lon > -180) /\ (lon < -60)))
        indian_ocean == ((lat > -45) /\ (lat < 25)) /\ ((lon > 40) /\ (lon < 120))
        caribbean == ((lat > 5) /\ (lat < 25)) /\ ((lon > -90) /\ (lon < -55))
    IN  IF pacific_ring \/ indian_ocean \/ caribbean THEN 1 ELSE 0

\* the flag with the magnitude bound taken inclusively
shallow_strong_ge(depth, magnitude) ==
    IF (depth < 70) /\ (magnitude >= 750) THEN 1 ELSE 0

\* lines 143-146: ((df['depth'] < 70) & (df['magnitude'] > 7.5)).astype(int)
shallow_strong(depth, magnitude) ==
    IF (depth < 70) /\ (magnitude > 750) THEN 1 ELSE 0

\* lines 126-146: the row of df after the derived columns are added.  The
\* quotient of line 137 is kept as its two terms: pandas divides floats, so a
\* zero denominator gives inf or NaN and raises nothing.  intensity_score is
\* in thousandths.  (Year and Month, taken from the event time, are left out.)
EngineeredRow(earthquake) ==
    LET row == input_data(earthquake)
    IN  [ocean_proximity |-> calculate_ocean_proximity(row.latitude, row.longitude),
         mag_depth_ratio |-> [num |-> row.magnitude, den |-> row.depth + 1],
         intensity_score |-> row.magnitude * 5 + row.mmi * 30 + row.sig * 2,
         shallow_strong |-> shallow_strong(row.depth, row.magnitude)] @@ row

\* lines 119-146: the columns of df when line 149 selects df[feature_names]
EngineeredColumns ==
    {"magnitude", "depth", "latitude", "longitude", "sig", "mmi", "cdi", "nst",
     "dmin", "gap", "Year", "Month", "ocean_proximity", "mag_depth_ratio",
     "intensity_score", "shallow_strong"}

\* line 149: df[feature_names] raises KeyError on a name df does not hold
SchemaMismatch ==
    \E i \in DOMAIN feature_names : feature_names[i] \notin EngineeredColumns

\* lines 104-151: something inside the try raises for this event: arithmetic
\* on a None value, the schema selection, or the scaler/classifier
PredictRaises(earthquake) ==
    \/ LET row == input_data(earthquake)
       IN  \E key \in DOMAIN defaults : row[key] = None
    \/ SchemaMismatch
    \/ ~earthquake.scorable

\* the tier ladder with the first bound taken inclusively
RiskTier_le(probability) ==
    IF probability <= 200
    THEN [probability |-> probability, risk_level |-> "Muy Bajo",
          risk_color |-> "#10b981", risk_emoji |-> "green"]
    ELSE IF probability < 400
    THEN [probability |-> probability, risk_level |-> "Bajo",
          risk_color |-> "#84cc16", risk_emoji |-> "green"]
    ELSE IF probability < 600
    THEN [probability |-> probability, risk_level |-> "Moderado",
          risk_color |-> "#f59e0b", risk_emoji |-> "yellow"]
    ELSE IF probability < 800
    THEN [probability |-> probability, risk_level |-> "Alto",
          risk_color |-> "#f97316", risk_emoji |-> "orange"]
    ELSE [probability |-> probability, risk_level |-> "Muy Alto",
          risk_color |-> "#ef4444", risk_emoji |-> "red"]

\* lines 153-180: the 5-tier ladder and the dict returned
RiskTier(probability) ==
    IF probability < 200
    THEN [probability |-> probability, risk_level |-> "Muy Bajo",
          risk_color |-> "#10b981", risk_emoji |-> "green"]
    ELSE IF probability < 400
    THEN [probability |-> probability, risk_level |-> "Bajo",
          risk_color |-> "#84cc16", risk_emoji |-> "green"]
    ELSE IF probability < 600
    THEN [probability |-> probability, risk_level |-> "Moderado",
          risk_color |-> "#f59e0b", risk_emoji |-> "yellow"]
    ELSE IF probability < 800
    THEN [probability |-> probability, risk_level |-> "Alto",
          risk_color |-> "#f97316", risk_emoji |-> "orange"]
    ELSE [probability |-> probability, risk_level |-> "Muy Alto",
          risk_color |-> "#ef4444", risk_emoji |-> "red"]

\* lines 99-184: None when the model is not loaded (line 101) or when the try
\* raised (line 182), else the tier of the classifier's probability
predict_tsunami_risk(earthquake) ==
    IF model = "None" THEN NoRisk
    ELSE IF PredictRaises(earthquake) THEN NoRisk
    ELSE RiskTier(earthquake.clf_p)

\* line 183: the st.error of one call
PredictDiagnostics(earthquake) ==
    IF model # "None" /\ PredictRaises(earthquake) THEN <<"prediccion">> ELSE <<>>

(***************************************************************************)
(* The summary metrics and the batch evaluation (lines 252-393).           *)
(***************************************************************************)
\* line 260: f"{max_mag:.1f}", hundredths to the nearest tenth (the catalog
\* values drawn here are never at a half)
FormatOneDecimal(hundredths) == (hundredths + 5) \div 10

\* line 259: max(eq['magnitude'] for eq in earthquakes)
MaxMagnitude(eqs) ==
    CHOOSE m \in {eqs[i].magnitude : i \in DOMAIN eqs} :
        \A i \in DOMAIN eqs : eqs[i].magnitude <= m

\* lines 259-260: max() compares None with a number (TypeError), or a lone
\* None reaches the format (TypeError)
SummaryRaises(eqs) ==
    \E i \in DOMAIN eqs : eqs[i].magnitude = None

\* lines 265-270: alerts_count
AlertsCount(eqs, threshold) ==
    IF eqs # <<>> /\ model # "None"
    THEN Cardinality({i \in DOMAIN eqs :
            LET risk == predict_tsunami_risk(eqs[i])
            IN  risk # NoRisk /\ risk.probability >= threshold})
    ELSE 0

\* the st.error diagnostics of one pass of predict_tsunami_risk over the batch
RECURSIVE BatchDiagnostics(_)
BatchDiagnostics(eqs) ==
    IF eqs = <<>> THEN <<>>
    ELSE PredictDiagnostics(Head(eqs)) \o BatchDiagnostics(Tail(eqs))

\* the loop without the test of line 288: every event is appended
WithRisk_keep(eqs) ==
    [i \in DOMAIN eqs |-> [eqs[i] EXCEPT !.risk = predict_tsunami_risk(eqs[i])]]

\* lines 285-290: the events whose risk is truthy, each with eq['risk'] set,
\* in input order
RECURSIVE WithRisk(_)
WithRisk(eqs) ==
    IF eqs = <<>> THEN <<>>
    ELSE LET eq == Head(eqs)
             risk == predict_tsunami_risk(eq)
         IN  IF risk # NoRisk
             THEN <<[eq EXCEPT !.risk = risk]>> \o WithRisk(Tail(eqs))
             ELSE WithRisk(Tail(eqs))

\* lines 289: eq['risk'] = risk also changes the dict held by earthquakes
Annotated(eqs) ==
    [i \in DOMAIN eqs |->
        LET risk == predict_tsunami_risk(eqs[i])
        IN  IF risk # NoRisk THEN [eqs[i] EXCEPT !.risk = risk] ELSE eqs[i]]

\* x goes before the first element of the sorted list s it is not below
InsertBefore(x, s) ==
    LET before == {i \in DOMAIN s : s[i].risk.probability > x.risk.probability}
        k == Cardinality(before)
    IN  SubSeq(s, 1, k) \o <<x>> \o SubSeq(s, k + 1, Len(s))

\* x goes behind every element of the sorted list s it is not above
InsertBehind(x, s) ==
    LET before == {i \in DOMAIN s : s[i].risk.probability >= x.risk.probability}
        k == Cardinality(before)
    IN  SubSeq(s, 1, k) \o <<x>> \o SubSeq(s, k + 1, Len(s))

\* an ascending sort read backwards: equal keys come out in reverse input order
RECURSIVE SortReversed(_)
SortReversed(s) ==
    IF s = <<>> THEN <<>>
    ELSE InsertBefore(s[Len(s)], SortReversed(SubSeq(s, 1, Len(s) - 1)))

\* line 293: list.sort(key=probability, reverse=True); Python's sort is
\* stable, reverse=True included: equal keys keep their input order
RECURSIVE SortByProbability(_)
SortByProbability(s) ==
    IF s = <<>> THEN <<>>
    ELSE InsertBehind(s[Len(s)], SortByProbability(SubSeq(s, 1, Len(s) - 1)))

\* the alert filter with a strict comparison
HighRisk_gt(sorted, threshold) ==
    SelectSeq(sorted, LAMBDA eq : eq.risk.probability > threshold)

\* line 299: high_risk
HighRisk(sorted, threshold) ==
    SelectSeq(sorted, LAMBDA eq : eq.risk.probability >= threshold)

\* lines 306-393: the tabs raise when an expander formats a None depth or
\* coordinate (lines 320-321, 360-361, "{None:.1f}"), or when no event was
\* assessed: map_data is then a DataFrame without columns and
\* map_data.sort_values('risk') raises KeyError (line 390)
RenderRaises(sorted) ==
    \/ sorted = <<>>
    \/ \E i \in DOMAIN sorted :
          \/ sorted[i].depth = None
          \/ sorted[i].latitude = None
          \/ sorted[i].longitude = None

(***************************************************************************)
(* The artifacts (lines 17-30) and the sidebar (lines 191-242).            *)
(***************************************************************************)
\* features.json: a schema df can serve, and one naming a column it lacks
Schemas ==
    {<<"magnitude", "depth", "latitude", "longitude", "sig", "mmi", "cdi", "nst",
       "dmin", "gap", "Year", "Month", "ocean_proximity", "mag_depth_ratio",
       "intensity_score", "shallow_strong">>,
     <<"magnitude", "depth", "latitude", "longitude", "magType">>}

\* lines 18-28: load_model returns the three artifacts, or three None
Artifacts ==
    {<<"None", <<>>>>} \cup {<<"GBC", schema>> : schema \in Schemas}

\* lines 210-217: values of the threshold slider (10..90 step 5, / 100) the
\* model draws, in thousandths; 300 is the slider's default
ThresholdChoices == {300, 500}

(***************************************************************************)
(* The prediction of the interactive form (src/app.py).                    *)
(***************************************************************************)
\* app.py lines 242-256: the dict the form builds from its widgets; the
\* advanced fields at the values the widgets start with
FormDict(magnitude, depth, latitude, longitude, mmi) ==
    [magnitude |-> magnitude, depth |-> depth, latitude |-> latitude,
     longitude |-> longitude, cdi |-> 50, mmi |-> mmi, sig |-> 800, nst |-> 50,
     dmin |-> 10, gap |-> 100, Year |-> 2024, Month |-> 1, place |-> ""]

\* dict.get(key, default)
Get(data, key, default) == IF key \in DOMAIN data THEN data[key] ELSE default

\* bool & bool and bool | bool
BitAnd(a, b) == a /\ b
BitOr(a, b) == a \/ b

\* app.py lines 35-43: the three boxes, combined with `&` / `|`, then int()
app_calculate_ocean_proximity(lat, lon) ==
    LET pacific_ring == BitAnd(BitAnd(lat > -60, lat < 60),
                               BitOr(BitAnd(lon > 120, lon < 180),
                                     BitAnd(lon > -180, lon < -60)))
        indian_ocean == BitAnd(BitAnd(lat > -45, lat < 25), BitAnd(lon > 40, lon < 120))
        caribbean == BitAnd(BitAnd(lat > 5, lat < 25), BitAnd(lon > -90, lon < -55))
    IN  IF pacific_ring \/ indian_ocean \/ caribbean THEN 1 ELSE 0

\* app.py lines 46-60: the dict engineer_features returns, its four keys
\* written over the argument.  The quotient of line 51 is kept as its two
\* terms; intensity_score is in thousandths.
engineer_features(data) ==
    [ocean_proximity |-> app_calculate_ocean_proximity(data.latitude, data.longitude),
     mag_depth_ratio |-> [num |-> data.magnitude, den |-> data.depth + 1],
     intensity_score |-> data.magnitude * 5 + Get(data, "mmi", 0) * 30
                         + Get(data, "sig", 0) * 2,
     shallow_strong |-> IF (data.depth < 70) /\ (data.magnitude > 750) THEN 1 ELSE 0]
    @@ data

\* app.py line 51: Python's float division raises ZeroDivisionError
EngineerRaises(data) == data.depth + 1 = 0

\* app.py line 72: the columns of pd.DataFrame([processed])
FormColumns ==
    {"magnitude", "depth", "latitude", "longitude", "cdi", "mmi", "sig", "nst",
     "dmin", "gap", "Year", "Month", "place", "ocean_proximity", "mag_depth_ratio",
     "intensity_score", "shallow_strong"}

\* app.py line 72: [feature_names] raises KeyError on a name the frame lacks
FormSchemaMismatch ==
    \E i \in DOMAIN feature_names : feature_names[i] \notin FormColumns

\* the ladder with the upper bound taken exclusively
RiskLevel_gt(probability) ==
    IF probability > 700 THEN [risk_level |-> "Alto", risk_color |-> "#dc3545"]
    ELSE IF probability >= 300 THEN [risk_level |-> "Moderado", risk_color |-> "#ffc107"]
    ELSE [risk_level |-> "Bajo", risk_color |-> "#28a745"]

\* app.py lines 79-88: the 3-tier ladder (the level without its emoji)
RiskLevel(probability) ==
    IF probability >= 700 THEN [risk_level |-> "Alto", risk_color |-> "#dc3545"]
    ELSE IF probability >= 300 THEN [risk_level |-> "Moderado", risk_color |-> "#ffc107"]
    ELSE [risk_level |-> "Bajo", risk_color |-> "#28a745"]

MagnitudeFactor == "Magnitud muy alta (>=7.5)"
DepthFactor == "Terremoto superficial (<70km)"
OceanFactor == "Cerca de zona oceanica de riesgo"
IntensityFactor == "Intensidad percibida alta"

\* the list with the depth factor appended before the magnitude factor
risk_factors_swapped(data, engineered) ==
    (IF data.depth < 70 THEN <<DepthFactor>> ELSE <<>>)
    \o (IF data.magnitude >= 750 THEN <<MagnitudeFactor>> ELSE <<>>)
    \o (IF engineered.ocean_proximity = 1 THEN <<OceanFactor>> ELSE <<>>)
    \o (IF Get(data, "mmi", 0) >= 60 THEN <<IntensityFactor>> ELSE <<>>)

\* app.py lines 91-99: the four appends, in the order of the code
risk_factors(data, engineered) ==
    (IF data.magnitude >= 750 THEN <<MagnitudeFactor>> ELSE <<>>)
    \o (IF data.depth < 70 THEN <<DepthFactor>> ELSE <<>>)
    \o (IF engineered.ocean_proximity = 1 THEN <<OceanFactor>> ELSE <<>>)
    \o (IF Get(data, "mmi", 0) >= 60 THEN <<IntensityFactor>> ELSE <<>>)

\* what predict_tsunami returns at line 65
NoResult == [probability |-> None, prediction |-> None, risk_level |-> "None",
             risk_color |-> "None", risk_factors |-> <<>>]

\* a frame or dict that has not been built, a feature that was not fetched
NotComputed == [computed |-> FALSE]

\* app.py lines 63-107, for the probability predict_proba returns; predict
\* gives class 1 when that probability is the larger of the two
predict_tsunami(data, probability) ==
    IF model = "None" THEN NoResult
    ELSE [probability |-> probability,
          prediction |-> IF probability > 500 THEN 1 ELSE 0,
          risk_level |-> RiskLevel(probability).risk_level,
          risk_color |-> RiskLevel(probability).risk_color,
          risk_factors |-> risk_factors(data, engineer_features(data))]

\* app.py line 69: engineer_features writes into earthquake_data.copy(); the
\* caller's dict, whose values are numbers and a string, is left as it was
DictAfterCall(data) == data

\* no single call is being exercised
NoCall ==
    /\ pipeline = "none"
    /\ earthquake_data = NotComputed
    /\ form_p = 0
    /\ processed = NotComputed
    /\ result = NoResult
    /\ feed_feature = NotComputed
    /\ df = NotComputed
    /\ feed_risk = NoRisk
    /\ call_pc = "ready"

(***************************************************************************)
(* The script as a state machine.                                          *)
(***************************************************************************)
Init ==
    /\ \E loaded \in Artifacts : model = loaded[1] /\ feature_names = loaded[2]
    /\ checkbox = FALSE
    /\ auto_refresh = FALSE
    /\ alert_threshold = 300
    /\ pc = "Idle"
    /\ response = NoResponse
    /\ http_requests = 0
    /\ earthquakes = <<>>
    /\ st_errors = <<>>
    /\ total_metric = Unreported
    /\ max_mag_metric = Unreported
    /\ alerts_metric = Unreported
    /\ earthquakes_with_risk = <<>>
    /\ high_risk = <<>>
    /\ tier_event = EarthquakeOf(Quake, 1)
    /\ tier_risk = NoRisk
    /\ tier_called = FALSE
    /\ NoCall

\* lines 191-242: a run starts: the page is cleared, the widgets are read
ReadSidebar(threshold) ==
    /\ auto_refresh' = checkbox
    /\ alert_threshold' = threshold
    /\ response' = NoResponse
    /\ http_requests' = 0
    /\ earthquakes' = <<>>
    /\ st_errors' = <<>>
    /\ total_metric' = Unreported
    /\ max_mag_metric' = Unreported
    /\ alerts_metric' = Unreported
    /\ earthquakes_with_risk' = <<>>
    /\ high_risk' = <<>>
    /\ pc' = "Fetching"

\* the user opens the page, changes a widget or presses "Actualizar ahora"
\* (lines 232-233: st.rerun() restarts the script before anything is fetched)
\* while no run is in progress
StartRun ==
    /\ pc \in {"Idle", "Crashed"}
    /\ \E threshold \in ThresholdChoices : ReadSidebar(threshold)
    /\ UNCHANGED <<model, feature_names, checkbox, tierVars, callVars>>

\* the user ticks or unticks "Auto-actualizacion" in the browser
ToggleAutoRefresh ==
    /\ checkbox' = ~checkbox
    /\ UNCHANGED <<model, feature_names, auto_refresh, alert_threshold, pc, response,
                   http_requests, earthquakes, st_errors, total_metric,
                   max_mag_metric, alerts_metric, earthquakes_with_risk, high_risk,
                   tierVars, callVars>>

\* lines 245-249: one call of fetch_recent_earthquakes
Fetch ==
    /\ pc = "Fetching"
    /\ \E resp \in UpstreamResponses :
          /\ response' = resp
          /\ http_requests' = http_requests + 1
          /\ earthquakes' = ParsedEarthquakes(resp)
          /\ st_errors' = IF FetchRaised(resp) THEN st_errors \o <<"usgs">> ELSE st_errors
    /\ pc' = "Evaluating"
    /\ UNCHANGED <<model, feature_names, checkbox, auto_refresh, alert_threshold,
                   total_metric, max_mag_metric, alerts_metric,
                   earthquakes_with_risk, high_risk, tierVars, callVars>>

\* lines 252-280, no event fetched: the three metrics and the info box
EvaluateEmpty ==
    /\ pc = "Evaluating"
    /\ earthquakes = <<>>
    /\ total_metric' = Metric(0)
    /\ max_mag_metric' = NAMetric
    /\ alerts_metric' = Metric(AlertsCount(earthquakes, alert_threshold))
    /\ pc' = "Rendered"
    /\ UNCHANGED <<model, feature_names, checkbox, auto_refresh, alert_threshold,
                   response, http_requests, earthquakes, st_errors,
                   earthquakes_with_risk, high_risk, tierVars, callVars>>

\* lines 252-260, a None magnitude: the total is shown, then max() or the
\* format raises and the run ends on the uncaught exception
EvaluateSummaryRaises ==
    /\ pc = "Evaluating"
    /\ earthquakes # <<>>
    /\ SummaryRaises(earthquakes)
    /\ total_metric' = Metric(Len(earthquakes))
    /\ pc' = "Crashed"
    /\ UNCHANGED <<model, feature_names, checkbox, auto_refresh, alert_threshold,
                   response, http_requests, earthquakes, st_errors, max_mag_metric,
                   alerts_metric, earthquakes_with_risk, high_risk, tierVars, callVars>>

\* lines 252-393: the metrics, both passes of predict_tsunami_risk over the
\* batch, the sort, the alert subset and the tabs
EvaluateBatch ==
    /\ pc = "Evaluating"
    /\ earthquakes # <<>>
    /\ ~SummaryRaises(earthquakes)
    /\ total_metric' = Metric(Len(earthquakes))
    /\ max_mag_metric' = Metric(FormatOneDecimal(MaxMagnitude(earthquakes)))
    /\ alerts_metric' = Metric(AlertsCount(earthquakes, alert_threshold))
    /\ LET sorted == SortByProbability(WithRisk(earthquakes))
       IN  /\ earthquakes_with_risk' = sorted
           /\ high_risk' = HighRisk(sorted, alert_threshold)
           /\ pc' = IF RenderRaises(sorted) THEN "Crashed" ELSE "Rendered"
    /\ earthquakes' = Annotated(earthquakes)
    /\ st_errors' = st_errors
                     \o (IF model # "None" THEN BatchDiagnostics(earthquakes) ELSE <<>>)
                     \o BatchDiagnostics(earthquakes)
    /\ UNCHANGED <<model, feature_names, checkbox, auto_refresh, alert_threshold,
                   response, http_requests, tierVars, callVars>>

\* line 396: the run ends, or goes to sleep when auto_refresh was read as set
AutoRefresh ==
    /\ pc = "Rendered"
    /\ pc' = IF auto_refresh THEN "Sleeping" ELSE "Idle"
    /\ UNCHANGED <<model, feature_names, checkbox, auto_refresh, alert_threshold,
                   response, http_requests, earthquakes, st_errors, total_metric,
                   max_mag_metric, alerts_metric, earthquakes_with_risk, high_risk,
                   tierVars, callVars>>

\* lines 397-398: time.sleep returns and st.rerun() starts the next run
Wake ==
    /\ pc = "Sleeping"
    /\ \E threshold \in ThresholdChoices : ReadSidebar(threshold)
    /\ UNCHANGED <<model, feature_names, checkbox, tierVars, callVars>>

Next ==
    \/ StartRun
    \/ ToggleAutoRefresh
    \/ Fetch
    \/ EvaluateEmpty
    \/ EvaluateSummaryRaises
    \/ EvaluateBatch
    \/ AutoRefresh
    \/ Wake

Spec == Init /\ [][Next]_vars

(***************************************************************************)
(* One call of predict_tsunami_risk on one event, for every probability    *)
(* the classifier can return.                                              *)
(***************************************************************************)
Probabilities == 0..1000

InitTier ==
    /\ \E loaded \in Artifacts : model = loaded[1] /\ feature_names = loaded[2]
    /\ checkbox = FALSE
    /\ auto_refresh = FALSE
    /\ alert_threshold = 300
    /\ pc = "Idle"
    /\ response = NoResponse
    /\ http_requests = 0
    /\ earthquakes = <<>>
    /\ st_errors = <<>>
    /\ total_metric = Unreported
    /\ max_mag_metric = Unreported
    /\ alerts_metric = Unreported
    /\ earthquakes_with_risk = <<>>
    /\ high_risk = <<>>
    /\ \E p \in Probabilities : tier_event = EarthquakeOf([Quake EXCEPT !.clf_p = p], 1)
    /\ tier_risk = NoRisk
    /\ tier_called = FALSE
    /\ NoCall

\* lines 99-184: risk = predict_tsunami_risk(eq)
PredictOnce ==
    /\ ~tier_called
    /\ tier_risk' = predict_tsunami_risk(tier_event)
    /\ tier_called' = TRUE
    /\ UNCHANGED <<model, feature_names, pageVars, tier_event, callVars>>

NextTier == PredictOnce

TierSpec == InitTier /\ [][NextTier]_vars

(***************************************************************************)
(* One prediction of either pipeline: predict_tsunami on a dict of the     *)
(* form (app.py), or predict_tsunami_risk on the dict built from one       *)
(* catalog feature (the monitoring page).                                  *)
(***************************************************************************)
\* latitudes and longitudes at, beside and between the edges of the boxes
Latitudes == {-90, -61, -60, -59, -46, -45, -44, 0, 4, 5, 6, 24, 25, 26, 59, 60, 61, 90}
Longitudes == {-180, -179, -91, -90, -89, -61, -60, -59, -56, -55, -54, 0, 39, 40, 41,
               119, 120, 121, 179, 180}

\* app.py lines 177-256: dicts the widgets can produce (magnitude 0.0..10.0,
\* depth 0.0..700.0, latitude -90..90, longitude -180..180, mmi 0.0..12.0),
\* each with the probability the classifier returns for it
FormInputs ==
    {<<e, p>> : e \in {FormDict(910, 29, 38, 142, 60), FormDict(450, 300, 0, 0, 30)},
                p \in Probabilities}
    \cup {<<FormDict(m, d, g[1], g[2], i), p>> :
              m \in {0, 700, 749, 750, 751, 1000}, d \in {0, 50, 69, 70, 71, 700},
              g \in {<<38, 142>>, <<0, 0>>, <<60, 150>>}, i \in {0, 59, 60, 61, 120},
              p \in {100, 300, 700}}
    \cup {<<FormDict(700, 50, lat, lon, 60), 300>> : lat \in Latitudes, lon \in Longitudes}

\* what an optional property of a catalog feature can be: its own number
\* (the one Quake carries), JSON null, NaN, or absent
OptionalKeys == {"sig", "mmi", "cdi", "nst", "dmin", "gap"}
OptionalValues(key) == {Quake[key], None, NaN, Missing}

\* lines 57-77: features the catalog can serve.  The depth (coordinates[2])
\* is whatever the catalog reports; it reports negative depths for events
\* above sea level.  A scaler of scikit-learn rejects a vector that holds
\* inf, which is what line 137 computes at depth -1.
FeedInputs ==
    {[Quake EXCEPT !.lat = lat, !.lon = lon] : lat \in Latitudes \cup {None},
                                               lon \in Longitudes \cup {None}}
    \cup {[Quake EXCEPT !.mag = m, !.depth = d] :
              m \in {523, 749, 750, 751, 780, None, NaN},
              d \in {0, 29, 69, 70, 71, 600, None}}
    \cup {[Quake EXCEPT !.mag = m, !.depth = d, !.scorable = (d # -1)] :
              m \in {523, 780}, d \in {-2, -1}}
    \cup {[Quake EXCEPT !.sig = o[1], !.mmi = o[2], !.cdi = o[3], !.nst = o[4],
                        !.dmin = o[5], !.gap = o[6], !.clf_p = 300] :
              o \in OptionalValues("sig") \X OptionalValues("mmi") \X OptionalValues("cdi")
                    \X OptionalValues("nst") \X OptionalValues("dmin")
                    \X OptionalValues("gap")}
    \cup {[Quake EXCEPT !.scorable = FALSE]}

InitCall ==
    /\ \E loaded \in Artifacts : model = loaded[1] /\ feature_names = loaded[2]
    /\ checkbox = FALSE
    /\ auto_refresh = FALSE
    /\ alert_threshold = 300
    /\ pc = "Idle"
    /\ response = NoResponse
    /\ http_requests = 0
    /\ earthquakes = <<>>
    /\ st_errors = <<>>
    /\ total_metric = Unreported
    /\ max_mag_metric = Unreported
    /\ alerts_metric = Unreported
    /\ earthquakes_with_risk = <<>>
    /\ high_risk = <<>>
    /\ tier_event = EarthquakeOf(Quake, 1)
    /\ tier_risk = NoRisk
    /\ tier_called = FALSE
    /\ \/ /\ pipeline = "form"
          /\ \E input \in FormInputs : earthquake_data = input[1] /\ form_p = input[2]
          /\ feed_feature = NotComputed
       \/ /\ pipeline = "feed"
          /\ earthquake_data = NotComputed
          /\ form_p = 0
          /\ feed_feature \in FeedInputs
    /\ processed = NotComputed
    /\ result = NoResult
    /\ df = NotComputed
    /\ feed_risk = NoRisk
    /\ call_pc = "ready"

\* app.py line 259: result = predict_tsunami(earthquake_data).  Nothing in
\* the function catches: an exception of line 51 or line 72 leaves it.
CallPredictTsunami ==
    /\ pipeline = "form"
    /\ call_pc = "ready"
    /\ earthquake_data' = DictAfterCall(earthquake_data)
    /\ IF model = "None"
       THEN /\ processed' = processed
            /\ result' = NoResult
            /\ call_pc' = "returned"
       ELSE IF EngineerRaises(earthquake_data)
       THEN /\ processed' = processed
            /\ result' = result
            /\ call_pc' = "raised"
       ELSE IF FormSchemaMismatch
       THEN /\ processed' = engineer_features(earthquake_data)
            /\ result' = result
            /\ call_pc' = "raised"
       ELSE /\ processed' = engineer_features(earthquake_data)
            /\ result' = predict_tsunami(earthquake_data, form_p)
            /\ call_pc' = "returned"
    /\ UNCHANGED <<model, feature_names, pageVars, tierVars, form_p, pipeline,
                   feed_feature, df, feed_risk>>

\* lines 57-77 and 287: the dict of the feature, then
\* risk = predict_tsunami_risk(eq).  The try of line 104 catches everything.
CallPredictTsunamiRisk ==
    /\ pipeline = "feed"
    /\ call_pc = "ready"
    /\ LET earthquake == EarthquakeOf(feed_feature, 1)
       IN  /\ df' = IF model = "None" THEN df ELSE EngineeredRow(earthquake)
           /\ feed_risk' = predict_tsunami_risk(earthquake)
    /\ call_pc' = "returned"
    /\ UNCHANGED <<model, feature_names, pageVars, tierVars, pipeline, earthquake_data,
                   form_p, processed, result, feed_feature>>

NextCall == CallPredictTsunami \/ CallPredictTsunamiRisk

CallSpec == InitCall /\ [][NextCall]_vars

(***************************************************************************)
(* Properties.                                                             *)
(***************************************************************************)
MandatoryPresent(eq) ==
    /\ eq.magnitude # None
    /\ eq.depth # None
    /\ eq.latitude # None
    /\ eq.longitude # None

Count(seq, x) == Cardinality({i \in DOMAIN seq : seq[i] = x})

\* the response of this run is a failed call or holds a record that does not parse
UpstreamFailed ==
    \/ response.status \in FailureKinds
    \/ /\ response.status = "ok"
       /\ \E i \in DOMAIN response.features : ~response.features[i].keys_ok

\* scoring this event yields no assessment: no model, a schema the vector
\* cannot serve, or artifacts that reject the vector
ScoringFails(eq) ==
    \/ model = "None"
    \/ \E i \in DOMAIN feature_names : feature_names[i] \notin EngineeredColumns
    \/ ~eq.scorable

\* the batch has been evaluated in this run (the alert metric is on the page)
Evaluated == alerts_metric # Unreported

\* every event of the fetched list has its four mandatory fields
AllMandatoryPresent ==
    \A i \in DOMAIN earthquakes : MandatoryPresent(earthquakes[i])

\* C1: the Poller never overlaps cycles and every cycle goes Fetching, then
\* Evaluating, then Rendered; after Rendered the loop sleeps (and then fetches
\* again) only if auto-refresh is enabled, otherwise it goes to Idle.  Stated
\* on the steps of the script, for cycles whose events have every mandatory
\* field: each change of the Poller state is one of the moves of that cycle.
C1_PollerCycleOrder ==
    [][(pc' # pc /\ AllMandatoryPresent) =>
          \/ pc = "Idle" /\ pc' = "Fetching"
          \/ pc = "Fetching" /\ pc' = "Evaluating"
          \/ pc = "Evaluating" /\ pc' = "Rendered"
          \/ pc = "Rendered" /\ auto_refresh /\ pc' = "Sleeping"
          \/ pc = "Rendered" /\ ~auto_refresh /\ pc' = "Idle"
          \/ pc = "Sleeping" /\ pc' = "Fetching"]_vars

\* C2: once auto-refresh is disabled the loop ends after the cycle in
\* progress: with the checkbox unticked the loop neither goes to sleep after
\* Rendered nor re-enters Fetching from Sleeping; and a cycle that has started
\* fetching (events with every mandatory field) is not abandoned before
\* Rendered.
C2_CancellationEndsLoop ==
    [][/\ (~checkbox /\ pc = "Rendered") => pc' # "Sleeping"
       /\ (~checkbox /\ pc = "Sleeping") => pc' # "Fetching"
       /\ pc = "Fetching" => pc' \in {"Fetching", "Evaluating"}
       /\ (pc = "Evaluating" /\ AllMandatoryPresent) =>
             pc' \in {"Evaluating", "Rendered"}]_vars

\* C3: when the catalog call fails or its response does not parse (one
\* malformed record among valid ones included), fetch_recent_earthquakes
\* returns [] after a single request and without raising, and the cycle
\* reports total 0, alert count 0 and maximum magnitude "N/A".
C3_FetchFailureGivesEmptyCycle ==
    UpstreamFailed =>
        /\ earthquakes = <<>>
        /\ http_requests = 1
        /\ Count(st_errors, "usgs") = 1
        /\ pc \in {"Evaluating", "Rendered", "Sleeping", "Idle"}
        /\ pc # "Evaluating" =>
              /\ total_metric = Metric(0)
              /\ alerts_metric = Metric(0)
              /\ max_mag_metric = NAMetric

C3_Witness ==
    /\ response.status = "ok"
    /\ Len(response.features) = 3
    /\ response.features[1].keys_ok
    /\ ~response.features[2].keys_ok
    /\ response.features[3].keys_ok
    /\ pc = "Sleeping"
    /\ total_metric = Metric(0)
    /\ max_mag_metric = NAMetric

\* C4: a schema mismatch halts the evaluation of the whole batch: it is not
\* caught per event (it surfaces at most once, not as one handled diagnostic
\* per call) and the run does not carry on to the end of the evaluation.
C4_SchemaMismatchHaltsBatch ==
    (model # "None" /\ SchemaMismatch /\ earthquakes # <<>>) =>
        /\ Count(st_errors, "prediccion") <= 1
        /\ ~Evaluated

\* C5: an event with a mandatory field (magnitude, depth, latitude,
\* longitude) missing or null yields no assessment.
C5_NullMandatoryFieldRejected ==
    \A i \in DOMAIN earthquakes_with_risk :
        MandatoryPresent(earthquakes_with_risk[i])

\* C6: with the model not loaded every prediction returns None, and a cycle
\* with a non-empty fetched list of well-formed events completes without
\* crashing, reporting the total, the maximum magnitude and an alert count 0.
C6_NoModelCycleCompletes ==
    (/\ model = "None"
     /\ earthquakes # <<>>
     /\ AllMandatoryPresent) =>
        /\ \A i \in DOMAIN earthquakes : predict_tsunami_risk(earthquakes[i]) = NoRisk
        /\ pc # "Crashed"
        /\ pc # "Evaluating" =>
              /\ total_metric = Metric(Len(earthquakes))
              /\ max_mag_metric.kind = "value"
              /\ alerts_metric = Metric(0)

\* C7 as stated: failures are counted separately, assessments plus the
\* failure count make the total.  The code keeps no failure counter; the only
\* trace a failed scoring leaves is its st.error diagnostic, so the count is
\* the number of those.
C7_FailuresCounted ==
    Evaluated =>
        Len(earthquakes_with_risk) + Count(st_errors, "prediccion") = Len(earthquakes)

\* C7 as amended: after a batch evaluation every event whose scoring fails is
\* absent from the assessment list and every event whose scoring succeeds is
\* present exactly once, so the assessments are as many as the fetched events
\* less the failed ones; failures are not counted, each failed call only
\* surfaces a diagnostic: two per failed event when the model is loaded, none
\* when it is not.
C7_FailuresDroppedNotCounted ==
    Evaluated =>
        LET failed == {i \in DOMAIN earthquakes : ScoringFails(earthquakes[i])}
            listed(i) == {j \in DOMAIN earthquakes_with_risk :
                            earthquakes_with_risk[j].id = earthquakes[i].id}
        IN  /\ \A i \in DOMAIN earthquakes :
                  Cardinality(listed(i)) = IF i \in failed THEN 0 ELSE 1
            /\ Len(earthquakes_with_risk) = Len(earthquakes) - Cardinality(failed)
            /\ Count(st_errors, "prediccion") =
                  IF model = "None" THEN 0 ELSE 2 * Cardinality(failed)

C7_Witness ==
    /\ Evaluated
    /\ model # "None"
    /\ Len(earthquakes) = 3
    /\ Len(earthquakes_with_risk) = 2
    /\ ~earthquakes[2].scorable
    /\ Count(st_errors, "prediccion") = 2
    /\ pc = "Rendered"

\* C8: after batch evaluation the assessment list is ordered by probability
\* descending, and assessments of equal probability keep the relative order
\* their events had in the fetched input.
C8_SortedDescendingStable ==
    \A i, j \in DOMAIN earthquakes_with_risk :
        i < j =>
            \/ earthquakes_with_risk[i].risk.probability
                  > earthquakes_with_risk[j].risk.probability
            \/ /\ earthquakes_with_risk[i].risk.probability
                    = earthquakes_with_risk[j].risk.probability
               /\ earthquakes_with_risk[i].id < earthquakes_with_risk[j].id

C8_Witness ==
    /\ pc = "Rendered"
    /\ Len(earthquakes_with_risk) = 3
    /\ earthquakes_with_risk[1].id = 2
    /\ earthquakes_with_risk[2].id = 1
    /\ earthquakes_with_risk[3].id = 3
    /\ earthquakes_with_risk[2].risk.probability = earthquakes_with_risk[3].risk.probability

\* C9: the alert subset is exactly the assessments whose probability is at
\* least the alert threshold (one exactly at the threshold included), in
\* sorted order, and the alert count of the summary is its size.
C9_AlertSubsetAtOrAboveThreshold ==
    Evaluated =>
        LET alerting == {j \in DOMAIN earthquakes_with_risk :
                            earthquakes_with_risk[j].risk.probability >= alert_threshold}
        IN  /\ \A i \in DOMAIN high_risk :
                  /\ high_risk[i].risk.probability >= alert_threshold
                  /\ \E j \in alerting : earthquakes_with_risk[j] = high_risk[i]
            /\ \A j \in alerting :
                  \E i \in DOMAIN high_risk : high_risk[i] = earthquakes_with_risk[j]
            /\ Len(high_risk) = Cardinality(alerting)
            /\ \A i, k \in DOMAIN high_risk :
                  i < k =>
                     \/ high_risk[i].risk.probability > high_risk[k].risk.probability
                     \/ /\ high_risk[i].risk.probability = high_risk[k].risk.probability
                        /\ high_risk[i].id < high_risk[k].id
            /\ alerts_metric = Metric(Len(high_risk))

C9_Witness ==
    /\ pc = "Rendered"
    /\ alert_threshold = 300
    /\ Len(earthquakes_with_risk) = 3
    /\ Len(high_risk) = 2
    /\ high_risk[2].risk.probability = 300
    /\ earthquakes_with_risk[3].risk.probability = 100
    /\ alerts_metric = Metric(2)

\* C10: the 5-tier mapping gives every probability in [0,1] exactly one tier:
\* Muy Bajo below 0.2, Bajo in [0.2,0.4), Moderado in [0.4,0.6), Alto in
\* [0.6,0.8), Muy Alto from 0.8; a probability at a bound gets the higher tier.
C10_FiveTierPartition ==
    (tier_called /\ tier_risk # NoRisk) =>
        LET p == tier_event.clf_p
            tiers == {t \in {"Muy Bajo", "Bajo", "Moderado", "Alto", "Muy Alto"} :
                        \/ t = "Muy Bajo" /\ p < 200
                        \/ t = "Bajo" /\ 200 <= p /\ p < 400
                        \/ t = "Moderado" /\ 400 <= p /\ p < 600
                        \/ t = "Alto" /\ 600 <= p /\ p < 800
                        \/ t = "Muy Alto" /\ 800 <= p}
        IN  /\ tier_risk.probability = p
            /\ tiers = {tier_risk.risk_level}

C10_Witness ==
    /\ tier_called
    /\ tier_risk.probability = 600
    /\ tier_risk.risk_level = "Alto"

\* the call of the form has returned a result dict
FormReturned == pipeline = "form" /\ call_pc = "returned" /\ model # "None"

\* C11: for every probability in [0, 1] the 3-tier mapping of predict_tsunami
\* gives High iff probability >= 0.7, Moderate iff 0.3 <= probability < 0.7 and
\* Low iff probability < 0.3; the tier and its colour are determined by the
\* probability alone, whatever the event.
C11_ThreeTierByProbability ==
    FormReturned =>
        /\ result.probability = form_p
        /\ (result.risk_level = "Alto") <=> (form_p >= 700)
        /\ (result.risk_level = "Moderado") <=> (300 <= form_p /\ form_p < 700)
        /\ (result.risk_level = "Bajo") <=> (form_p < 300)
        /\ result.risk_level \in {"Alto", "Moderado", "Bajo"}
        /\ result.risk_color =
              (CASE result.risk_level = "Alto" -> "#dc3545"
                 [] result.risk_level = "Moderado" -> "#ffc107"
                 [] result.risk_level = "Bajo" -> "#28a745")

\* a weak, deep, inland event gets the High tier at probability exactly 0.7
C11_Witness ==
    /\ FormReturned
    /\ form_p = 700
    /\ earthquake_data.magnitude = 450
    /\ result.risk_level = "Alto"
    /\ result.risk_factors = <<>>

\* C12: for every event either pipeline processes (the form, or the feed with
\* its unvalidated catalog depth) the denominator depth + 1 of mag_depth_ratio
\* is at least 1, so the ratio never divides by zero.
C12_RatioDenominatorAtLeastOne ==
    /\ (pipeline = "form" /\ processed # NotComputed) =>
           processed.mag_depth_ratio.den >= 1
    /\ (pipeline = "feed" /\ df # NotComputed) =>
           df.mag_depth_ratio.den >= 1

\* the point lies strictly inside the box
InsideBox(lat, lon, south, north, west, east) ==
    south < lat /\ lat < north /\ west < lon /\ lon < east

\* 1 inside the Pacific Ring, Indian Ocean or Caribbean box, 0 elsewhere
InsideSomeBox(lat, lon) ==
    IF \/ InsideBox(lat, lon, -60, 60, 120, 180)
       \/ InsideBox(lat, lon, -60, 60, -180, -60)
       \/ InsideBox(lat, lon, -45, 25, 40, 120)
       \/ InsideBox(lat, lon, 5, 25, -90, -55)
    THEN 1 ELSE 0

\* C13: for every latitude in [-90, 90] and longitude in [-180, 180] both
\* implementations of calculate_ocean_proximity return, and return 1 iff the
\* point is strictly inside the Pacific Ring, Indian Ocean or Caribbean box
\* (a point on an edge is outside); so the two agree on every input.
C13_OceanProximityBoxes ==
    /\ (pipeline = "form" /\ call_pc # "ready" /\ model # "None") =>
           /\ processed # NotComputed
           /\ processed.ocean_proximity =
                  InsideSomeBox(earthquake_data.latitude, earthquake_data.longitude)
    /\ (pipeline = "feed" /\ call_pc # "ready" /\ model # "None"
            /\ feed_feature.lat # None /\ feed_feature.lon # None) =>
           /\ df # NotComputed
           /\ df.ocean_proximity = InsideSomeBox(feed_feature.lat, feed_feature.lon)

\* a feed event on the northern edge of the Caribbean box, east of the
\* Pacific box, is outside
C13_Witness ==
    /\ pipeline = "feed"
    /\ call_pc = "returned"
    /\ feed_feature.lat = 25
    /\ feed_feature.lon = -56
    /\ df # NotComputed
    /\ df.ocean_proximity = 0
    /\ feed_risk # NoRisk

\* C14: in both pipelines shallow_strong is 1 iff depth < 70 km and
\* magnitude > 7.5; at depth 70 (any magnitude) and at magnitude 7.5 (any
\* depth) it is 0.  In the feed the depth and magnitude are those of the
\* scored vector, which are the event's own whenever the event gives them.
C14_ShallowStrongStrictBounds ==
    /\ (pipeline = "form" /\ processed # NotComputed) =>
           /\ (processed.shallow_strong = 1) <=>
                  (earthquake_data.depth < 70 /\ earthquake_data.magnitude > 750)
           /\ processed.shallow_strong \in {0, 1}
           /\ earthquake_data.depth = 70 => processed.shallow_strong = 0
           /\ earthquake_data.magnitude = 750 => processed.shallow_strong = 0
    /\ (pipeline = "feed" /\ df # NotComputed) =>
           /\ (df.shallow_strong = 1) <=> (df.depth < 70 /\ df.magnitude > 750)
           /\ df.shallow_strong \in {0, 1}
           /\ df.depth = 70 => df.shallow_strong = 0
           /\ df.magnitude = 750 => df.shallow_strong = 0
           /\ feed_feature.depth # None => df.depth = feed_feature.depth
           /\ feed_feature.mag \notin {None, NaN} => df.magnitude = feed_feature.mag

\* a scored feed event of magnitude 7.8 at exactly 70 km is not shallow-strong
C14_Witness ==
    /\ pipeline = "feed"
    /\ call_pc = "returned"
    /\ feed_feature.mag = 780
    /\ feed_feature.depth = 70
    /\ df # NotComputed
    /\ df.shallow_strong = 0
    /\ feed_risk # NoRisk

\* the defaults the specification documents for the optional fields
\* (sig 1000, mmi 5, cdi 5, nst 50, dmin 1.0, gap 100.0)
DocumentedDefault ==
    [sig |-> 1000, mmi |-> 50, cdi |-> 50, nst |-> 50, dmin |-> 10, gap |-> 100]

\* C15: in the monitoring pipeline every optional field (sig, mmi, cdi, nst,
\* dmin, gap) of the vector that is scored is the event's own value when that
\* value is present and numeric, and otherwise the documented default, whether
\* the property was missing, null or NaN; no null or NaN optional value
\* reaches the scaler.
C15_OptionalFieldsDefaulted ==
    (pipeline = "feed" /\ df # NotComputed) =>
        \A key \in OptionalKeys :
            /\ df[key] \notin {None, NaN, Missing}
            /\ df[key] = IF feed_feature[key] \in {None, NaN, Missing}
                         THEN DocumentedDefault[key]
                         ELSE feed_feature[key]

\* a scored event with sig missing, mmi null, cdi NaN and its own nst
C15_Witness ==
    /\ pipeline = "feed"
    /\ call_pc = "returned"
    /\ feed_risk # NoRisk
    /\ feed_feature.sig = Missing
    /\ feed_feature.mmi = None
    /\ feed_feature.cdi = NaN
    /\ feed_feature.nst = 120
    /\ df # NotComputed
    /\ df.sig = 1000 /\ df.mmi = 50 /\ df.cdi = 50 /\ df.nst = 120

\* position of a factor in the order of the list
FactorRank(factor) ==
    CASE factor = MagnitudeFactor -> 1
      [] factor = DepthFactor -> 2
      [] factor = OceanFactor -> 3
      [] factor = IntensityFactor -> 4

Listed(factor) == \E i \in DOMAIN result.risk_factors : result.risk_factors[i] = factor

\* the list of a returned result: each factor iff its rule, in rank order
FactorsFollowRules ==
    FormReturned =>
        /\ Listed(MagnitudeFactor) <=> (earthquake_data.magnitude >= 750)
        /\ Listed(DepthFactor) <=> (earthquake_data.depth < 70)
        /\ Listed(OceanFactor) <=> (processed.ocean_proximity = 1)
        /\ Listed(IntensityFactor) <=> (earthquake_data.mmi >= 60)
        /\ \A i \in DOMAIN result.risk_factors :
               result.risk_factors[i] \in
                   {MagnitudeFactor, DepthFactor, OceanFactor, IntensityFactor}
        /\ \A i, j \in DOMAIN result.risk_factors :
               i < j => FactorRank(result.risk_factors[i]) < FactorRank(result.risk_factors[j])

\* C16: the risk-factor list predict_tsunami returns holds the magnitude factor
\* iff magnitude >= 7.5, the depth factor iff depth < 70, the ocean factor iff
\* ocean_proximity = 1 and the intensity factor iff mmi >= 6, always in that
\* order and each at most once, whatever the probability; and the call leaves
\* the caller's event record unchanged.
C16_RiskFactorsAndCallerRecord ==
    /\ []FactorsFollowRules
    /\ [][earthquake_data' = earthquake_data]_vars

\* all four factors listed, in order, at a probability in the Low tier
C16_Witness ==
    /\ FormReturned
    /\ form_p = 100
    /\ result.risk_level = "Bajo"
    /\ earthquake_data.magnitude = 750
    /\ earthquake_data.depth = 69
    /\ earthquake_data.mmi = 60
    /\ result.risk_factors = <<MagnitudeFactor, DepthFactor, OceanFactor, IntensityFactor>>
    /\ DOMAIN earthquake_data = DOMAIN FormDict(0, 0, 0, 0, 0)

====
